---- MODULE Spec2Model ----
(***************************************************************************)
(* Model of app/main.py: the FastAPI probe demo.                           *)
(*                                                                         *)
(* The process is one asyncio event loop serving HTTP requests, three      *)
(* module-level values read and written by the handlers (APP_START_TIME,   *)
(* READY, HEALTHY), and a ThreadPoolExecutor with one worker thread that   *)
(* runs peer discovery (_fetch_peer_pods) for the / and /info handlers.    *)
(*                                                                         *)
(* Time is counted in ticks, TicksPerSecond to the second.  Strings that   *)
(* the code orders (pod names, addresses) are sequences of character       *)
(* codes, compared the way Python compares str.                            *)
(***************************************************************************)
EXTENDS Integers, Sequences, FiniteSets, TLC

(***************************************************************************)
(* Bounds of the model.                                                    *)
(***************************************************************************)
\* Clock resolution: ticks per second.
TicksPerSecond == 1
\* Requests in flight at a time (connections the server has accepted).
MaxTasks == 2
\* Length of the pod list the Kubernetes API returns.
MaxPods == 2
\* Length of the address list getaddrinfo returns.
MaxAddrs == 3

(***************************************************************************)
(* Program constants.                                                      *)
(***************************************************************************)
\* ThreadPoolExecutor(max_workers=1)
MaxWorkers == 1
\* os.getenv("STARTUP_DELAY", "5")
DefaultStartupDelay == 5
\* startup(): if elapsed < 2
InitWindowSeconds == 2
\* asyncio.wait_for(..., timeout=3.0)
DiscoveryTimeoutSeconds == 3
\* stress(): while time.time() - start < 2
StressSeconds == 2

(***************************************************************************)
(* Strings the code compares or sorts, as sequences of character codes.    *)
(***************************************************************************)
\* "10.0.0.2", "10.0.0.5", "10.0.0.10"
Ip2 == <<49, 48, 46, 48, 46, 48, 46, 50>>
Ip5 == <<49, 48, 46, 48, 46, 48, 46, 53>>
Ip10 == <<49, 48, 46, 48, 46, 48, 46, 49, 48>>
\* "pod-a", "pod-b"
PodA == <<112, 111, 100, 45, 97>>
PodB == <<112, 111, 100, 45, 98>>
\* "pending": the address shown for a pod that has none yet
PendingIp == <<112, 101, 110, 100, 105, 110, 103>>
\* None (and the empty string): what Python's `or` treats as missing
None == <<>>

Min(a, b) == IF a < b THEN a ELSE b
Max(a, b) == IF a > b THEN a ELSE b

\* Python's str "<": lexicographic by code point, a proper prefix first.
RECURSIVE StrLess(_, _)
StrLess(s, t) ==
    IF t = <<>> THEN FALSE
    ELSE IF s = <<>> THEN TRUE
    ELSE IF Head(s) # Head(t) THEN Head(s) < Head(t)
    ELSE StrLess(Tail(s), Tail(t))

(***************************************************************************)
(* Peer discovery: the two strategies and their composition, as functions  *)
(* of what the environment answers.                                        *)
(*   k8s  : what k8s_v1.list_namespaced_pod does: [kind |-> "pods", pods]  *)
(*          or [kind |-> "error"] (any exception: 403, timeout, network)   *)
(*   host : what socket.gethostbyname(socket.gethostname()) does:          *)
(*          [ok |-> TRUE, ip] or [ok |-> FALSE] (it raises socket.gaierror)*)
(*   dns  : what socket.getaddrinfo(dns_name, ...) does:                   *)
(*          [kind |-> "addrs", addrs] or [kind |-> "gaierror"]             *)
(* A call either returns a list of peers or raises.                        *)
(***************************************************************************)
Return(peers) == [kind |-> "return", peers |-> peers]
Raise == [kind |-> "raise", peers |-> <<>>]

RECURSIVE SumSeq(_)
SumSeq(s) == IF s = <<>> THEN 0 ELSE Head(s) + SumSeq(Tail(s))

\* sorted(peers, key=lambda p: p[key]): stable, ascending by str order.
RECURSIVE InsertSorted(_, _, _)
InsertSorted(p, s, key) ==
    IF s = <<>> THEN <<p>>
    ELSE IF StrLess(p[key], Head(s)[key]) THEN <<p>> \o s
    ELSE <<Head(s)>> \o InsertSorted(p, Tail(s), key)

RECURSIVE SortedFrom(_, _, _)
SortedFrom(acc, rest, key) ==
    IF rest = <<>> THEN acc
    ELSE SortedFrom(InsertSorted(Head(rest), acc, key), Tail(rest), key)

Sorted(peers, key) == SortedFrom(<<>>, peers, key)

PeerOfPodSelfByPresence(pod, my_ip) ==
    LET pod_ip == IF pod.pod_ip # None THEN pod.pod_ip ELSE PendingIp
    IN  [name     |-> pod.name,
         ip       |-> pod_ip,
         node     |-> IF pod.node_name # "" THEN pod.node_name ELSE "unknown",
         phase    |-> pod.phase,
         ready    |-> \E i \in DOMAIN pod.conditions :
                          /\ pod.conditions[i].type = "Ready"
                          /\ pod.conditions[i].status = "True",
         restarts |-> SumSeq(pod.container_statuses),
         is_self  |-> pod.pod_ip = None \/ pod_ip = my_ip]

\* The dict built for one pod of pods.items.
PeerOfPod(pod, my_ip) ==
    LET pod_ip == IF pod.pod_ip # None THEN pod.pod_ip ELSE PendingIp
    IN  [name     |-> pod.name,
         ip       |-> pod_ip,
         node     |-> IF pod.node_name # "" THEN pod.node_name ELSE "unknown",
         phase    |-> pod.phase,
         ready    |-> \E i \in DOMAIN pod.conditions :
                          /\ pod.conditions[i].type = "Ready"
                          /\ pod.conditions[i].status = "True",
         restarts |-> SumSeq(pod.container_statuses),
         is_self  |-> pod_ip = my_ip]

\* The dict built for one resolved address.
PeerOfAddr(ip, my_ip) ==
    [name     |-> ip,
     ip       |-> ip,
     node     |-> "-",      \* the source writes an em dash here
     phase    |-> "Running",
     ready    |-> TRUE,
     restarts |-> 0,
     is_self  |-> ip = my_ip]

RECURSIVE DnsLoopKeepAll(_, _, _, _)
DnsLoopKeepAll(results, seen, peers, my_ip) ==
    IF results = <<>> THEN peers
    ELSE DnsLoopKeepAll(Tail(results), seen \cup {Head(results)},
                        Append(peers, PeerOfAddr(Head(results), my_ip)), my_ip)

\* The loop of _discover_via_dns over the getaddrinfo results, with `seen`.
RECURSIVE DnsLoop(_, _, _, _)
DnsLoop(results, seen, peers, my_ip) ==
    IF results = <<>> THEN peers
    ELSE IF Head(results) \in seen
         THEN DnsLoop(Tail(results), seen, peers, my_ip)
         ELSE DnsLoop(Tail(results), seen \cup {Head(results)},
                      Append(peers, PeerOfAddr(Head(results), my_ip)), my_ip)

\* _discover_via_dns: gethostbyname is called before the try block, so its
\* failure leaves the function as an exception.
DiscoverViaDns(host, dns) ==
    IF ~host.ok THEN Raise
    ELSE IF dns.kind = "gaierror" THEN Return(<<>>)
    ELSE Return(Sorted(DnsLoop(dns.addrs, {}, <<>>, host.ip), "ip"))

\* _discover_via_k8s_api: every exception inside the try block gives [].
DiscoverViaK8sApi(available, k8s, host) ==
    IF ~available THEN <<>>
    ELSE IF k8s.kind = "error" THEN <<>>
    ELSE IF ~host.ok THEN <<>>
    ELSE Sorted([i \in DOMAIN k8s.pods |-> PeerOfPod(k8s.pods[i], host.ip)], "name")

FetchPeerPodsMerged(available, env) ==
    LET peers == DiscoverViaK8sApi(available, env.k8s, env.host)
        more == DiscoverViaDns(env.host, env.dns)
    IN  IF more.kind = "raise" THEN more ELSE Return(peers \o more.peers)

\* _fetch_peer_pods
FetchPeerPods(available, env) ==
    LET peers == DiscoverViaK8sApi(available, env.k8s, env.host)
    IN  IF peers # <<>> THEN Return(peers)
        ELSE DiscoverViaDns(env.host, env.dns)

(***************************************************************************)
(* What the environment may answer.                                        *)
(***************************************************************************)
Pods ==
    { [name |-> PodA, pod_ip |-> Ip2, node_name |-> "node-1", phase |-> "Running",
       conditions |-> <<[type |-> "Ready", status |-> "True"]>>,
       container_statuses |-> <<0, 1>>],
      [name |-> PodB, pod_ip |-> Ip5, node_name |-> "", phase |-> "Running",
       conditions |-> <<[type |-> "Initialized", status |-> "True"],
                        [type |-> "Ready", status |-> "False"]>>,
       container_statuses |-> <<2>>],
      [name |-> PodB, pod_ip |-> None, node_name |-> "", phase |-> "Pending",
       conditions |-> <<>>, container_statuses |-> <<>>],
      [name |-> PodA, pod_ip |-> Ip10, node_name |-> "node-2", phase |-> "Running",
       conditions |-> <<[type |-> "Ready", status |-> "True"]>>,
       container_statuses |-> <<>>] }

Addrs == {Ip2, Ip5, Ip10}

SeqsUpTo(S, n) == UNION { [1..k -> S] : k \in 0..n }

K8sOutcomes ==
    {[kind |-> "error", pods |-> <<>>]}
        \cup { [kind |-> "pods", pods |-> ps] : ps \in SeqsUpTo(Pods, MaxPods) }

HostOutcomes ==
    {[ok |-> FALSE, ip |-> None]} \cup { [ok |-> TRUE, ip |-> a] : a \in {Ip2, Ip5} }

DnsOutcomes ==
    {[kind |-> "gaierror", addrs |-> <<>>]}
        \cup { [kind |-> "addrs", addrs |-> as] : as \in SeqsUpTo(Addrs, MaxAddrs) }

Envs == [k8s : K8sOutcomes, host : HostOutcomes, dns : DnsOutcomes]

\* The answers the running server is given: one pod list (out of name order),
\* one address list (out of order, with a duplicate), and each failure.
ServerEnvs ==
    [k8s  : {[kind |-> "error", pods |-> <<>>],
             [kind |-> "pods",
              pods |-> <<CHOOSE p \in Pods : p.name = PodB /\ p.pod_ip = Ip5,
                         CHOOSE p \in Pods : p.name = PodA /\ p.pod_ip = Ip2>>]},
     host : {[ok |-> FALSE, ip |-> None], [ok |-> TRUE, ip |-> Ip2]},
     dns  : {[kind |-> "gaierror", addrs |-> <<>>],
             [kind |-> "addrs", addrs |-> <<Ip5, Ip2, Ip2>>]}]

(***************************************************************************)
(* The state of the process.                                               *)
(***************************************************************************)
VARIABLES
    now,            \* time.time() - APP_START_TIME in ticks; Horizon stands
                    \* for "Horizon or later"
    STARTUP_DELAY,  \* seconds, read from the environment at import
    K8S_AVAILABLE,  \* whether the in-cluster config loaded at import
    HEALTHY,
    READY,
    task,           \* the requests in flight, one per slot
    running,        \* the task the event loop is executing, 0 when it is free
    queue,          \* _k8s_executor's work queue: the tasks whose job waits
    worker,         \* _k8s_executor's threads: busy or not, and for whom
    nToggleHealth,  \* history: /toggle-health calls so far, modulo 2
    nToggleReady,   \* history: /toggle-ready calls since the delay elapsed, modulo 2
    readyAtGate,    \* history: READY as the /toggle-ready calls before the
                    \* delay elapsed left it
    readySetBy,     \* history: what wrote READY last: "init", "toggle", "probe"
    startupPassed,  \* history: some /startup request was answered 200
    call            \* a direct call of _fetch_peer_pods: its inputs and results

vars == <<now, STARTUP_DELAY, K8S_AVAILABLE, HEALTHY, READY, task, running, queue,
          worker, nToggleHealth, nToggleReady, readyAtGate, readySetBy,
          startupPassed, call>>

Tasks == 1..MaxTasks
Workers == 1..MaxWorkers

\* STARTUP_DELAY values: no delay, one shorter than the startup window, the default.
StartupDelays == {0, 1, DefaultStartupDelay}

\* Past this tick no comparison of the elapsed time changes any more.
Horizon == (Max(STARTUP_DELAY, InitWindowSeconds) + 1) * TicksPerSecond

IdleTask ==
    [ep |-> "", pc |-> "idle", tmp |-> FALSE, timer |-> 0, fut |-> "none",
     peers |-> <<>>, status |-> 0, shown |-> "", remaining |-> -1]

NoCall ==
    [stage |-> "none", available |-> FALSE,
     env |-> [k8s |-> [kind |-> "error", pods |-> <<>>],
              host |-> [ok |-> FALSE, ip |-> None],
              dns |-> [kind |-> "gaierror", addrs |-> <<>>]],
     a |-> <<>>, b |-> Raise, out |-> Raise]

Init ==
    /\ now = 0
    /\ STARTUP_DELAY \in StartupDelays
    /\ K8S_AVAILABLE \in BOOLEAN
    /\ HEALTHY = TRUE
    /\ READY = FALSE
    /\ task = [t \in Tasks |-> IdleTask]
    /\ running = 0
    /\ queue = <<>>
    /\ worker = [w \in Workers |-> [busy |-> FALSE, owner |-> 0]]
    /\ nToggleHealth = 0
    /\ nToggleReady = 0
    /\ readyAtGate = FALSE
    /\ readySetBy = "init"
    /\ startupPassed = FALSE
    /\ call = NoCall

flags == <<HEALTHY, READY>>
hist == <<nToggleHealth, nToggleReady, readyAtGate, readySetBy, startupPassed>>
config == <<STARTUP_DELAY, K8S_AVAILABLE>>
executor == <<queue, worker>>

(***************************************************************************)
(* The event loop.  Handlers are coroutines on one loop: a handler runs    *)
(* from its start to its next await (or its return) before any other       *)
(* handler runs.  A handler that returned holds the loop until its         *)
(* response is sent.                                                       *)
(***************************************************************************)
LoopPreemptive == TRUE

LoopFree == running = 0

LoopHeldWhileAwaiting(t) == t

\* What the loop runs while task t awaits asyncio.wait_for: anything else.
LoopWhileAwaiting(t) == 0

Response(ep, status, shown, remaining, peers) ==
    [IdleTask EXCEPT !.ep = ep, !.pc = "done", !.status = status, !.shown = shown,
                     !.remaining = remaining, !.peers = peers]

\* The loop gives a waiting request its turn; the handler that runs is the
\* one its path routes to.  Nothing reads the path before that, so the model
\* leaves it open until then.
Starts(t) == LoopFree /\ task[t].pc = "pending"

\* round(seconds, 1) of a number of ticks, in tenths of a second (half to even).
RoundTenths(ticks) ==
    LET n == 10 * ticks
        q == n \div TicksPerSecond
        r == n % TicksPerSecond
    IN  IF 2 * r < TicksPerSecond THEN q
        ELSE IF 2 * r > TicksPerSecond THEN q + 1
        ELSE IF q % 2 = 0 THEN q ELSE q + 1

\* A request arrives: uvicorn accepts it and schedules its handler.
Accept(t) ==
    /\ task[t].pc = "idle"
    /\ task' = [task EXCEPT ![t] = [IdleTask EXCEPT !.pc = "pending"]]
    /\ UNCHANGED <<now, config, flags, hist, running, executor, call>>

\* The response of a finished handler is sent; the loop is free again.
Send(t) ==
    /\ task[t].pc = "done"
    /\ task' = [task EXCEPT ![t] = IdleTask]
    /\ running' = 0
    /\ UNCHANGED <<now, config, flags, hist, executor, call>>

(***************************************************************************)
(* Probe endpoints.                                                        *)
(***************************************************************************)
LivenessAlwaysOk(healthy) == 200

LivenessStatus(healthy) == IF ~healthy THEN 503 ELSE 200

\* GET /healthz
Liveness(t) ==
    /\ Starts(t)
    /\ task' = [task EXCEPT ![t] =
                  Response("/healthz", LivenessStatus(HEALTHY),
                           IF ~HEALTHY THEN "UNHEALTHY" ELSE "HEALTHY", -1, <<>>)]
    /\ running' = t
    /\ UNCHANGED <<now, config, flags, hist, executor, call>>

ReadinessLockedUntilToggled(elapsed) ==
    elapsed < STARTUP_DELAY * TicksPerSecond /\ ~READY

\* readiness(): elapsed < STARTUP_DELAY
ReadinessLocked(elapsed) == elapsed < STARTUP_DELAY * TicksPerSecond

\* GET /ready
Readiness(t) ==
    /\ Starts(t)
    /\ IF ReadinessLocked(now)
       THEN /\ task' = [task EXCEPT ![t] =
                          Response("/ready", 503, "Not Ready Yet",
                                   RoundTenths(STARTUP_DELAY * TicksPerSecond - now),
                                   <<>>)]
            /\ READY' = READY
       ELSE /\ READY' = TRUE
            /\ task' = [task EXCEPT ![t] = Response("/ready", 200, "READY", -1, <<>>)]
    /\ running' = t
    /\ UNCHANGED <<now, config, HEALTHY, executor, call>>

StartupStatusByDelay(elapsed) ==
    IF elapsed < STARTUP_DELAY * TicksPerSecond THEN 503 ELSE 200

\* startup(): elapsed < 2
StartupStatus(elapsed) ==
    IF elapsed < InitWindowSeconds * TicksPerSecond THEN 503 ELSE 200

\* GET /startup
Startup(t) ==
    /\ Starts(t)
    /\ task' = [task EXCEPT ![t] =
                  IF StartupStatus(now) = 503
                  THEN Response("/startup", 503, "Starting up",
                                RoundTenths(InitWindowSeconds * TicksPerSecond - now),
                                <<>>)
                  ELSE Response("/startup", 200, "STARTED", -1, <<>>)]
    /\ running' = t
    /\ UNCHANGED <<now, config, flags, executor, call>>

(***************************************************************************)
(* Toggles.  `X = not X` is a read of the global, then a write.            *)
(***************************************************************************)
\* GET /toggle-health: the read of HEALTHY
ToggleHealthRead(t) ==
    /\ Starts(t)
    /\ task' = [task EXCEPT ![t].ep = "/toggle-health", ![t].pc = "write",
                             ![t].tmp = HEALTHY]
    /\ running' = t
    /\ UNCHANGED <<now, config, flags, hist, executor, call>>

\* GET /toggle-health: the write of HEALTHY and the page that reports it
ToggleHealthWrite(t) ==
    /\ task[t].pc = "write"
    /\ task[t].ep = "/toggle-health"
    /\ HEALTHY' = ~task[t].tmp
    /\ task' = [task EXCEPT ![t] =
                  Response("/toggle-health", 200,
                           IF HEALTHY' THEN "HEALTHY" ELSE "UNHEALTHY", -1, <<>>)]
    /\ UNCHANGED <<now, config, READY, running, executor, call>>

\* GET /toggle-ready: the read of READY
ToggleReadyRead(t) ==
    /\ Starts(t)
    /\ task' = [task EXCEPT ![t].ep = "/toggle-ready", ![t].pc = "write",
                             ![t].tmp = READY]
    /\ running' = t
    /\ UNCHANGED <<now, config, flags, hist, executor, call>>

ToggleReadyWriteBoth(t) ==
    /\ task[t].pc = "write"
    /\ task[t].ep = "/toggle-ready"
    /\ READY' = ~task[t].tmp
    /\ HEALTHY' = READY'
    /\ task' = [task EXCEPT ![t] =
                  Response("/toggle-ready", 200,
                           IF READY' THEN "READY" ELSE "NOT READY", -1, <<>>)]
    /\ UNCHANGED <<now, config, running, executor, call>>

\* GET /toggle-ready: the write of READY and the page that reports it
ToggleReadyWrite(t) ==
    /\ task[t].pc = "write"
    /\ task[t].ep = "/toggle-ready"
    /\ READY' = ~task[t].tmp
    /\ task' = [task EXCEPT ![t] =
                  Response("/toggle-ready", 200,
                           IF READY' THEN "READY" ELSE "NOT READY", -1, <<>>)]
    /\ UNCHANGED <<now, config, HEALTHY, running, executor, call>>

(***************************************************************************)
(* /stress: a busy loop on the event loop.                                 *)
(***************************************************************************)
StressStart(t) ==
    /\ Starts(t)
    /\ task' = [task EXCEPT ![t].ep = "/stress", ![t].pc = "burn", ![t].timer = 0]
    /\ running' = t
    /\ UNCHANGED <<now, config, flags, hist, executor, call>>

StressEnd(t) ==
    /\ task[t].pc = "burn"
    /\ task[t].timer >= StressSeconds * TicksPerSecond
    /\ task' = [task EXCEPT ![t] = Response("/stress", 200, "", -1, <<>>)]
    /\ UNCHANGED <<now, config, flags, hist, running, executor, call>>

(***************************************************************************)
(* / and /info: get_peer_pods hands _fetch_peer_pods to the executor and   *)
(* awaits the result for at most DiscoveryTimeoutSeconds.                  *)
(***************************************************************************)
NeverTimedOut(t) == FALSE

\* asyncio.wait_for(..., timeout=3.0): the deadline of task t's await has passed.
TimedOut(t) == task[t].timer >= DiscoveryTimeoutSeconds * TicksPerSecond

\* What get_peer_pods returns for a future that raised, or did not complete.
PeersOnFailure(last) == <<>>

\* index(), info(): up to the await in get_peer_pods.  The two handlers are
\* the same up to the page they render, so which of the two runs is left
\* open until the page is rendered.
IndexStart(t) ==
    /\ Starts(t)
    /\ task' = [task EXCEPT ![t].pc = "await", ![t].timer = 0, ![t].fut = "pending"]
    /\ queue' = Append(queue, t)
    /\ running' = LoopWhileAwaiting(t)
    /\ UNCHANGED <<now, config, flags, hist, worker, call>>

\* index(), info(): from the end of the await to the return.  wait_for ends
\* with the future's result or with TimeoutError; when the future completed
\* and the timeout fired before the task ran again, which of the two it is
\* depends on the asyncio version.  A timeout cancels the future: a job still
\* queued is dropped, a job already running runs on with nobody waiting.
\* The page then shows socket.gethostbyname(socket.gethostname()), outside
\* any try: when that raises the response is a 500.
IndexResume(t) ==
    /\ task[t].pc = "await"
    /\ running = LoopWhileAwaiting(t)
    /\ task[t].fut # "pending" \/ TimedOut(t)
    /\ \E ep \in {"/", "/info"}, useResult \in BOOLEAN, hostOk \in BOOLEAN :
         /\ useResult => task[t].fut = "returned"
         /\ ~useResult => (task[t].fut = "raised" \/ TimedOut(t))
         /\ LET peers == IF useResult THEN task[t].peers
                         ELSE PeersOnFailure(task[t].peers)
            IN  task' = [task EXCEPT ![t] =
                           Response(ep, IF hostOk THEN 200 ELSE 500,
                                    IF peers = <<>> THEN "unavailable" ELSE "table",
                                    -1, peers)]
    /\ queue' = SelectSeq(queue, LAMBDA j : j # t)
    /\ worker' = [w \in Workers |->
                    IF worker[w].busy /\ worker[w].owner = t
                    THEN [worker[w] EXCEPT !.owner = 0] ELSE worker[w]]
    /\ running' = t
    /\ UNCHANGED <<now, config, flags, hist, call>>

(***************************************************************************)
(* The executor's worker threads.  They run beside the event loop.         *)
(***************************************************************************)
\* A free worker takes the oldest queued job.
WorkerTake(w) ==
    /\ ~worker[w].busy
    /\ queue # <<>>
    /\ worker' = [worker EXCEPT ![w] = [busy |-> TRUE, owner |-> Head(queue)]]
    /\ queue' = Tail(queue)
    /\ UNCHANGED <<now, config, flags, hist, task, running, call>>

\* _fetch_peer_pods ends in the worker, after however long its network calls
\* took (it may also never end: this step is then never taken).
WorkerReturn(w) ==
    /\ worker[w].busy
    /\ \E env \in ServerEnvs :
         LET out == FetchPeerPods(K8S_AVAILABLE, env)
             t == worker[w].owner
         IN  task' = IF t = 0 THEN task
                     ELSE [task EXCEPT ![t].fut = IF out.kind = "return"
                                                  THEN "returned" ELSE "raised",
                                       ![t].peers = out.peers,
                                       ![t].timer = IF TimedOut(t) THEN @ ELSE 0]
    /\ worker' = [worker EXCEPT ![w] = [busy |-> FALSE, owner |-> 0]]
    /\ UNCHANGED <<now, config, flags, hist, running, queue, call>>

(***************************************************************************)
(* Time.  A handler's turn on the loop takes no time at the clock's        *)
(* resolution, except the busy loop of /stress.                            *)
(***************************************************************************)
Timed(r) == r.pc = "burn" \/ (r.pc = "await" /\ r.fut = "pending")

TimerCap(r) ==
    IF r.pc = "burn" THEN StressSeconds * TicksPerSecond
    ELSE DiscoveryTimeoutSeconds * TicksPerSecond

Tick ==
    /\ \A t \in Tasks : task[t].pc \notin {"write", "done"}
    /\ now' = Min(now + 1, Horizon)
    /\ task' = [t \in Tasks |->
                  IF Timed(task[t])
                  THEN [task[t] EXCEPT !.timer = Min(@ + 1, TimerCap(task[t]))]
                  ELSE task[t]]
    /\ <<now', task'>> # <<now, task>>
    /\ UNCHANGED <<config, flags, hist, running, executor, call>>

(***************************************************************************)
(* A direct call of _fetch_peer_pods on given answers of the environment.  *)
(***************************************************************************)
FetchInit ==
    /\ Init
    /\ STARTUP_DELAY = DefaultStartupDelay
    /\ K8S_AVAILABLE = TRUE

FetchCall ==
    /\ call.stage = "none"
    /\ \E available \in BOOLEAN, env \in Envs :
         call' = [stage |-> "done", available |-> available, env |-> env,
                  a |-> DiscoverViaK8sApi(available, env.k8s, env.host),
                  b |-> DiscoverViaDns(env.host, env.dns),
                  out |-> FetchPeerPods(available, env)]
    /\ UNCHANGED <<now, config, flags, hist, task, running, executor>>

FetchReset ==
    /\ call.stage = "done"
    /\ call' = NoCall
    /\ UNCHANGED <<now, config, flags, hist, task, running, executor>>

(***************************************************************************)
(* History variables: what the handlers did so far.  They are written next *)
(* to the four handlers they observe and read by no handler.               *)
(***************************************************************************)
\* with ToggleHealthWrite
CountToggleHealth ==
    /\ nToggleHealth' = 1 - nToggleHealth
    /\ UNCHANGED <<nToggleReady, readyAtGate, readySetBy, startupPassed>>

\* with ToggleReadyWrite
CountToggleReady ==
    /\ IF ReadinessLocked(now)
       THEN nToggleReady' = nToggleReady /\ readyAtGate' = READY'
       ELSE nToggleReady' = 1 - nToggleReady /\ readyAtGate' = readyAtGate
    /\ readySetBy' = "toggle"
    /\ UNCHANGED <<nToggleHealth, startupPassed>>

\* with Readiness
NoteReadiness(t) ==
    /\ readySetBy' = IF task'[t].status = 200 THEN "probe" ELSE readySetBy
    /\ UNCHANGED <<nToggleHealth, nToggleReady, readyAtGate, startupPassed>>

\* with Startup
NoteStartup(t) ==
    /\ startupPassed' = (startupPassed \/ task'[t].status = 200)
    /\ UNCHANGED <<nToggleHealth, nToggleReady, readyAtGate, readySetBy>>

(***************************************************************************)
(* Specifications.                                                         *)
(*   Spec      : the whole server, every endpoint and the executor.        *)
(*   ProbeSpec : the endpoints that read or write HEALTHY, READY and the   *)
(*               clock, and /stress, with the history variables recorded.  *)
(*               The handlers of / and /info and the executor's threads    *)
(*               write neither flag nor the clock.                         *)
(*   FetchSpec : direct calls of _fetch_peer_pods.                         *)
(***************************************************************************)
Next ==
    \/ \E t \in Tasks : Accept(t)
    \/ \E t \in Tasks : Liveness(t)
    \/ \E t \in Tasks : Readiness(t) /\ UNCHANGED hist
    \/ \E t \in Tasks : Startup(t) /\ UNCHANGED hist
    \/ \E t \in Tasks : ToggleHealthRead(t)
    \/ \E t \in Tasks : ToggleHealthWrite(t) /\ UNCHANGED hist
    \/ \E t \in Tasks : ToggleReadyRead(t)
    \/ \E t \in Tasks : ToggleReadyWrite(t) /\ UNCHANGED hist
    \/ \E t \in Tasks : StressStart(t)
    \/ \E t \in Tasks : StressEnd(t)
    \/ \E t \in Tasks : IndexStart(t)
    \/ \E t \in Tasks : IndexResume(t)
    \/ \E t \in Tasks : Send(t)
    \/ \E w \in Workers : WorkerTake(w)
    \/ \E w \in Workers : WorkerReturn(w)
    \/ Tick

Spec == Init /\ [][Next]_vars

\* The whole server as started with no startup delay and the Kubernetes
\* client loaded: discovery has both its strategies, and the clock's range is
\* the shortest (the delay only moves the /ready gate).
DiscoveryInit == Init /\ STARTUP_DELAY = 0 /\ K8S_AVAILABLE = TRUE

DiscoverySpec == DiscoveryInit /\ [][Next]_vars

\* The requests that await discovery, beside the one handler that holds the
\* loop for seconds (/stress), under what the scheduling guarantees: time
\* passes (a handler's turn is short, so no amount of traffic stops the
\* clock), and the event loop runs every callback that is ready, in turn: a
\* handler that holds the loop gets to its end, a response is sent, and a task
\* whose await is over runs again.  Nothing makes a request arrive, and
\* nothing makes a worker take a job or a network call return.
AwaitNext ==
    \/ \E t \in Tasks : Accept(t)
    \/ \E t \in Tasks : StressStart(t)
    \/ \E t \in Tasks : StressEnd(t)
    \/ \E t \in Tasks : IndexStart(t)
    \/ \E t \in Tasks : IndexResume(t)
    \/ \E t \in Tasks : Send(t)
    \/ \E w \in Workers : WorkerTake(w)
    \/ \E w \in Workers : WorkerReturn(w)
    \/ Tick

Fairness ==
    /\ SF_vars(Tick)
    /\ WF_vars(\E t \in Tasks : StressEnd(t) \/ Send(t))
    /\ \A t \in Tasks : SF_vars(IndexResume(t))

FairDiscoverySpec == DiscoveryInit /\ [][AwaitNext]_vars /\ Fairness

ProbeNext ==
    \/ \E t \in Tasks : Accept(t)
    \/ \E t \in Tasks : Liveness(t)
    \/ \E t \in Tasks : Readiness(t) /\ NoteReadiness(t)
    \/ \E t \in Tasks : Startup(t) /\ NoteStartup(t)
    \/ \E t \in Tasks : ToggleHealthRead(t)
    \/ \E t \in Tasks : ToggleHealthWrite(t) /\ CountToggleHealth
    \/ \E t \in Tasks : ToggleReadyRead(t)
    \/ \E t \in Tasks : ToggleReadyWrite(t) /\ CountToggleReady
    \/ \E t \in Tasks : StressStart(t)
    \/ \E t \in Tasks : StressEnd(t)
    \/ \E t \in Tasks : Send(t)
    \/ Tick

ProbeSpec == Init /\ [][ProbeNext]_vars

FetchNext == FetchCall \/ FetchReset

FetchSpec == FetchInit /\ [][FetchNext]_vars

(***************************************************************************)
(* Properties.                                                             *)
(***************************************************************************)
\* In this step the handler of ep returns task t's response.
Answered(t, ep) ==
    /\ task[t].pc # "done"
    /\ task'[t].pc = "done"
    /\ task'[t].ep = ep

MidToggle(ep) == \E t \in Tasks : task[t].pc = "write" /\ task[t].ep = ep

Seconds(n) == n * TicksPerSecond

\* C1: a fresh instance is HEALTHY, and every /healthz response is 200 exactly
\* when HEALTHY holds as the handler runs and 503 otherwise; so it is 503
\* after an odd number of /toggle-health calls (after the first) and 200
\* after an even number (after the second).
C1_HealthzStep ==
    \A t \in Tasks :
        Answered(t, "/healthz") =>
            /\ (task'[t].status = 200) <=> HEALTHY
            /\ (task'[t].status = 503) <=> ~HEALTHY
            /\ (task'[t].status = 503) <=> (nToggleHealth = 1)

C1_HealthzReportsLiveness == (HEALTHY = TRUE) /\ [][C1_HealthzStep]_vars

C1_Witness ==
    \E t \in Tasks :
        /\ task[t].pc = "done" /\ task[t].ep = "/healthz"
        /\ task[t].status = 503
        /\ nToggleHealth = 1

\* C2: whenever no /toggle-health handler is between its read and its write,
\* HEALTHY is its initial value (true) flipped once per /toggle-health call
\* made so far, whatever requests were in flight together: no toggle is lost.
C2_NoToggleLost ==
    ~MidToggle("/toggle-health") => (HEALTHY = (nToggleHealth = 0))

C2_Witness ==
    \E t, u \in Tasks :
        /\ task[t].pc = "done" /\ task[t].ep = "/toggle-health"
        /\ task[u].pc = "pending"
        /\ nToggleHealth = 1
        /\ ~HEALTHY

\* C3: a /ready request handled before STARTUP_DELAY seconds have elapsed is
\* answered 503 with the remaining time to the nearest tenth of a second,
\* whatever READY is; with STARTUP_DELAY = 5 the answer at 3 s is 503 with 2.0 s
\* remaining and at 6 s it is 200.
C3_ReadyStep ==
    \A t \in Tasks :
        Answered(t, "/ready") =>
            /\ now < Seconds(STARTUP_DELAY) =>
                 /\ task'[t].status = 503
                 /\ LET exact == 10 * (Seconds(STARTUP_DELAY) - now)
                        shown == task'[t].remaining * TicksPerSecond
                    IN  2 * (shown - exact) <= TicksPerSecond
                        /\ 2 * (exact - shown) <= TicksPerSecond
            /\ (STARTUP_DELAY = 5 /\ now = Seconds(3)) =>
                 task'[t].status = 503 /\ task'[t].remaining = 20
            /\ (STARTUP_DELAY = 5 /\ now = Seconds(6)) => task'[t].status = 200

C3_NotReadyBeforeDelay == [][C3_ReadyStep]_vars

C3_Witness ==
    \E t \in Tasks :
        /\ task[t].pc = "done" /\ task[t].ep = "/ready"
        /\ task[t].status = 503 /\ task[t].remaining = 20
        /\ STARTUP_DELAY = 5 /\ now = Seconds(3)
        /\ READY /\ readySetBy = "toggle"

\* C4: after the delay a /ready request is answered 503 exactly
\* when the last write of READY was a /toggle-ready that left it false, and
\* 200 otherwise.
C4_ReadyStep ==
    \A t \in Tasks :
        (Answered(t, "/ready") /\ now >= Seconds(STARTUP_DELAY)) =>
            ((task'[t].status = 503) <=> (readySetBy = "toggle" /\ ~READY))

C4_ReadyReportsToggle == [][C4_ReadyStep]_vars

Xor(a, b) == a # b

\* C5: once the delay has elapsed and no /toggle-ready handler is
\* between its read and its write, READY is its initial value flipped once per
\* /toggle-ready call made since the delay elapsed; the initial value being
\* the flag as it stood when the delay elapsed, or READY (the documented
\* default when the gate opens).
C5_ReadyParity ==
    (now >= Seconds(STARTUP_DELAY) /\ ~MidToggle("/toggle-ready")) =>
        \/ READY = Xor(readyAtGate, nToggleReady = 1)
        \/ READY = Xor(TRUE, nToggleReady = 1)

\* C6: a /startup request is answered 503 while less than the 2-second window
\* has elapsed and 200 from then on, and once one was answered 200 every later
\* one is answered 200, whatever the flags and STARTUP_DELAY are.
C6_StartupStep ==
    \A t \in Tasks :
        Answered(t, "/startup") =>
            /\ now < Seconds(2) => task'[t].status = 503
            /\ now >= Seconds(2) => task'[t].status = 200
            /\ startupPassed => task'[t].status = 200

C6_StartupMonotonic == [][C6_StartupStep]_vars

C6_Witness ==
    \E t \in Tasks :
        /\ task[t].pc = "done" /\ task[t].ep = "/startup" /\ task[t].status = 200
        /\ startupPassed
        /\ STARTUP_DELAY = 5 /\ now < Seconds(STARTUP_DELAY)
        /\ ~HEALTHY /\ READY

\* C7: _fetch_peer_pods returns Strategy A's list, whole and in its order,
\* whenever that list is not empty, and otherwise ends as Strategy B ends (its
\* list, or its exception); A's list is empty whenever the client is not
\* available or the API call fails.  The result is never a mix of the two.
C7_WholeAOrWholeB ==
    call.stage = "done" =>
        /\ call.a # <<>> => call.out = Return(call.a)
        /\ call.a = <<>> => call.out = call.b
        /\ (~call.available \/ call.env.k8s.kind = "error") => call.out = call.b
        /\ call.out.kind = "return" => call.out.peers \in {call.a, call.b.peers}

C7_Witness ==
    /\ call.stage = "done"
    /\ Len(call.out.peers) = 2
    /\ call.out.peers[1].name = PodA /\ call.out.peers[2].name = PodB
    /\ call.env.k8s.pods[1].name = PodB
    /\ call.b.peers # <<>> /\ call.b.peers # call.a

InQueue(t) == \E i \in DOMAIN queue : queue[i] = t

Waiting(t) == task[t].pc = "await" /\ task[t].fut = "pending"

\* In this step get_peer_pods returns and task t's page is rendered.
PeersAnswered(t) == task[t].pc = "await" /\ task'[t].pc = "done"

\* C8: a get_peer_pods call always ends: no task awaits it for ever, also when
\* the worker never returns, and the await ends in no other way than the
\* handler going on to its answer; when the future has not completed as the
\* call ends, the call ended by its timeout, returns the empty list and the
\* page is rendered with it (no exception reaches the handler).
C8_AwaitStep ==
    \A t \in Tasks :
        /\ (task[t].pc = "await" /\ task'[t].pc # "await") => PeersAnswered(t)
        /\ (PeersAnswered(t) /\ task[t].fut = "pending") =>
                /\ TimedOut(t)
                /\ task'[t].peers = <<>>
                /\ task'[t].shown = "unavailable"
                /\ task'[t].status # 0

C8_DiscoveryEnds ==
    /\ [][C8_AwaitStep]_vars
    /\ \A t \in Tasks : []<>(task[t].pc # "await")

C8_Witness ==
    \E t \in Tasks, w \in Workers :
        /\ task[t].pc = "done" /\ task[t].ep \in {"/", "/info"}
        /\ task[t].peers = <<>> /\ task[t].status = 200
        /\ worker[w].busy /\ worker[w].owner = 0
        /\ queue = <<>>
        /\ \A u \in Tasks \ {t} : task[u].pc = "idle"

\* The handlers of the probe and toggle endpoints, as the loop may start them.
ProbeTurn(t) ==
    \/ Liveness(t)
    \/ Readiness(t) /\ UNCHANGED hist
    \/ Startup(t) /\ UNCHANGED hist
    \/ ToggleHealthRead(t)
    \/ ToggleReadyRead(t)

\* C9: while a task awaits discovery, a request that is waiting for the loop
\* can be given its turn at once, unless the loop is running the handler of
\* another request that is not awaiting discovery: the loop is never held for
\* a discovery call, however long the worker takes.
C9_LoopNotHeldForDiscovery ==
    \A t, u \in Tasks :
        (task[u].pc = "await" /\ task[t].pc = "pending") =>
            \/ ENABLED ProbeTurn(t)
            \/ running \in Tasks /\ task[running].pc \in {"write", "burn", "done"}

C9_Witness ==
    \E t, u \in Tasks, w \in Workers :
        /\ Waiting(u) /\ ~TimedOut(u) /\ task[u].timer > 0
        /\ worker[w].busy /\ worker[w].owner = u
        /\ task[t].pc = "done" /\ task[t].ep = "/healthz"

\* C10: a stalled discovery call costs only the request that started it its
\* peer list: no later request's budget runs out while its own job has not
\* even started because every worker is busy with an earlier call.
C10_LaterCallUnaffected ==
    \A t \in Tasks :
        ~ /\ Waiting(t) /\ TimedOut(t) /\ InQueue(t)
          /\ \A w \in Workers : worker[w].busy

\* C11: no failure of discovery reaches the HTTP caller: every / and /info
\* response is a 200, never a 500, and a response to a request whose discovery
\* failed (the strategies raised, or the call timed out) carries the empty
\* peer list, shown as "peer discovery unavailable".
C11_NoServerError ==
    \A t \in Tasks :
        (task[t].pc = "done" /\ task[t].ep \in {"/", "/info"}) =>
            /\ task[t].status = 200
            /\ task[t].peers = <<>> => task[t].shown = "unavailable"

Range(f) == { f[i] : i \in DOMAIN f }

\* C12: whenever getaddrinfo returns a list of addresses (it is called only
\* once the process's own address is resolved), _discover_via_dns returns one
\* record per distinct address and no other, in strictly ascending str order
\* of address, each with name = address, phase Running, ready and 0 restarts;
\* 10.0.0.5, 10.0.0.2, 10.0.0.2 give exactly 10.0.0.2, 10.0.0.5.
C12_DnsDistinctSorted ==
    (call.stage = "done" /\ call.env.host.ok /\ call.env.dns.kind = "addrs") =>
        LET peers == call.b.peers
        IN  /\ call.b.kind = "return"
            /\ { p.ip : p \in Range(peers) } = Range(call.env.dns.addrs)
            /\ Len(peers) = Cardinality(Range(call.env.dns.addrs))
            /\ \A i, j \in DOMAIN peers : i < j => StrLess(peers[i].ip, peers[j].ip)
            /\ \A i \in DOMAIN peers :
                 /\ peers[i].name = peers[i].ip
                 /\ peers[i].phase = "Running"
                 /\ peers[i].ready = TRUE
                 /\ peers[i].restarts = 0
            /\ call.env.dns.addrs = <<Ip5, Ip2, Ip2>> =>
                 [i \in DOMAIN peers |-> peers[i].ip] = <<Ip2, Ip5>>

C12_Witness ==
    /\ call.stage = "done"
    /\ call.env.host.ok
    /\ call.env.dns.kind = "addrs"
    /\ call.env.dns.addrs = <<Ip5, Ip2, Ip2>>
    /\ Len(call.b.peers) = 2
    /\ call.b.peers[1].ip = Ip2 /\ call.b.peers[2].ip = Ip5

\* C13: in the list either strategy returns, a record's is_self holds exactly
\* when its address is the address gethostbyname gave the call for this
\* process; a pod that has no address yet (shown as "pending") is never self.
C13_SelfIffOwnAddress ==
    call.stage = "done" =>
        \A p \in Range(call.a) \cup Range(call.b.peers) :
            /\ p.is_self <=> (call.env.host.ok /\ p.ip = call.env.host.ip)
            /\ p.ip = PendingIp => ~p.is_self

C13_Witness ==
    /\ call.stage = "done"
    /\ call.env.host.ok
    /\ \E p, q \in Range(call.a) : p.is_self /\ q.ip = PendingIp /\ ~q.is_self
    /\ \E p, q \in Range(call.b.peers) : p.is_self /\ ~q.is_self

\* In this step the handler of ep runs for task t (any of its steps).
Handles(t, ep) == task'[t] # task[t] /\ task'[t].ep = ep /\ task'[t].pc # "idle"

\* C14: every step of the /toggle-health handler leaves READY as it is and
\* every step of the /toggle-ready handler leaves HEALTHY as it is, while the
\* toggle's own flag is flipped as its response is built; the /healthz
\* handler writes neither flag.  And whatever the two flags are, a request
\* that is given its turn can be either toggle: each flag can be flipped from
\* every combination of the two.
C14_FrameStep ==
    \A t \in Tasks :
        /\ Handles(t, "/toggle-health") => READY' = READY
        /\ Handles(t, "/toggle-ready") => HEALTHY' = HEALTHY
        /\ Handles(t, "/healthz") => (HEALTHY' = HEALTHY /\ READY' = READY)
        /\ Answered(t, "/toggle-health") => HEALTHY' = ~HEALTHY
        /\ Answered(t, "/toggle-ready") => READY' = ~READY

C14_TogglesIndependent ==
    /\ [][C14_FrameStep]_vars
    /\ [](\A t \in Tasks : Starts(t) =>
            (ENABLED ToggleHealthRead(t) /\ ENABLED ToggleReadyRead(t)))

C14_Witness ==
    \E t \in Tasks :
        /\ task[t].pc = "done" /\ task[t].ep = "/toggle-health"
        /\ ~HEALTHY /\ READY
        /\ readySetBy = "toggle"

\* The handlers of the three probes, as the loop may start them.
ProbeAnswer(t) ==
    \/ Liveness(t)
    \/ Readiness(t) /\ UNCHANGED hist
    \/ Startup(t) /\ UNCHANGED hist

\* C15: while a request is in progress (the /stress handler in its busy loop
\* included), a probe request that has arrived can be answered at once,
\* unless the loop is in the turn of a handler that takes no time.
C15_ProbesAnsweredMeanwhile ==
    \A t, u \in Tasks :
        (task[u].pc \in {"burn", "await"} /\ task[t].pc = "pending") =>
            \/ ENABLED ProbeAnswer(t)
            \/ running \in Tasks /\ task[running].pc \in {"write", "done"}

====
